---- MODULE Spec2Model ----
(***************************************************************************)
(* Model of swym's write log (src/internal/write_log.rs): the type-erased  *)
(* write record (WriteEntry), the bloom-filtered record container          *)
(* (WriteLog) and the commit protocol driven over it by several            *)
(* transactions, each owning one log and sharing the transactional cells.  *)
(*                                                                         *)
(* A machine word (usize) is represented by the set of its set bit         *)
(* positions: `a | b` is union, `a & b` is intersection, `a == 0` is       *)
(* emptiness, `1 << k` is {k}.                                             *)
(***************************************************************************)
EXTENDS Integers, Sequences, FiniteSets, TLC

\* ----------------------------------------------------------------- bounds
\* Longest record container explored.
MaxLen == 2
\* Last epoch the global clock may reach.
MaxEpoch == 2
\* Pending values are drawn from 1..MaxVal (0 is a cell's initial value).
MaxVal == 3

\* ------------------------------------------------------- program constants
\* mem::align_of::<TCellErased>() on a 64-bit target (the cell holds a usize).
Align == 8
\* mem::size_of::<NonZeroUsize>() * 8
WordBits == 64

\* The transactions; each owns a private write log.
Logs == {"L1", "L2"}
\* Addresses of the cells.  16 and 1040 hash to the same filter bit.
Cells == {16, 32, 1040}
\* Option::None of a record's dest.
None == 0
Values == 1 .. MaxVal

VARIABLES
    filter,     \* WriteLog.filter of each log, as a set of bit positions
    data,       \* WriteLog.data of each log: the sequence of records
    cells,      \* every TCellErased: lock bit, version and stored value
    clock,      \* the global epoch clock
    pc,         \* where each transaction's driver stands
    idx,        \* position of the running loop over data
    failAt,     \* index of the record whose try_lock failed
    pin,        \* pin epoch of each transaction attempt
    pubEpoch,   \* commit epoch of each transaction attempt
    held,       \* history: cells whose lock the log acquired and has not released
    tried,      \* history: indices try_lock was called on in the last try_lock_entries
    undone,     \* history: indices unlock was called on by unlock_entries_until
    overlap,    \* history: logs whose try_lock_entries overlapped this log's last call
    pushed,     \* history: cells pushed into the log since its last clear
    lastVal,    \* history: value last written to each cell through entry (0: none)
    firstOff,   \* history: offset at which each cell was first recorded (0: none)
    preEpoch,   \* history: version each locked cell had when the log locked it
    rewritten,  \* history: cells whose record was overwritten in place since the last clear
    origin,     \* history: the cell each record of the container was pushed for
    leaked      \* history: cells left locked by an attempt that was cleared while holding them

vars == << filter, data, cells, clock, pc, idx, failAt, pin, pubEpoch, held,
           tried, undone, overlap, pushed, lastVal, firstOff, preEpoch, rewritten,
           origin, leaked >>

hist == << tried, undone, overlap, pushed, lastVal, firstOff, preEpoch, rewritten,
           origin, leaked >>

\* ------------------------------------------------------------ bloom filter
calc_shift ==
    (IF Align > 1 THEN 1 ELSE 0) + (IF Align > 2 THEN 1 ELSE 0)
  + (IF Align > 4 THEN 1 ELSE 0) + (IF Align > 8 THEN 1 ELSE 0) + 1

RECURSIVE Pow2(_)
Pow2(n) == IF n = 0 THEN 1 ELSE 2 * Pow2(n - 1)

\* 1 << ((addr >> SHIFT) & (WordBits - 1))
bloom_hash(value) == { (value \div Pow2(calc_shift)) % WordBits }

\* Fault: the test is inverted (`== 0` for `!= 0`).
contained_inverted(f, hash) == IF (f \cap hash) = {} THEN "Maybe" ELSE "No"

\* Fault: the filter test always answers No.
contained_never(f, hash) == "No"

contained(f, hash) == IF (f \cap hash) # {} THEN "Maybe" ELSE "No"

\* ------------------------------------------------------------ write record
WriteEntryImpl_new(dest, pending) == [dest |-> dest, pending |-> pending]

tcell(e) == e.dest

\* Fault: cells are compared by their filter hash instead of their address.
is_dest_tcell_by_hash(e, v) ==
    IF tcell(e) # None THEN bloom_hash(tcell(e)) = bloom_hash(v) ELSE FALSE

is_dest_tcell(e, v) == IF tcell(e) # None THEN tcell(e) = v ELSE FALSE

deactivate(e) == [e EXCEPT !.dest = None]

\* EpochLock of the cell (external collaborator).
EpochLock_try_lock(w, max_expected) == ~w.locked /\ w.epoch <= max_expected
EpochLock_lock(w) == [w EXCEPT !.locked = TRUE]
EpochLock_unlock(w) == [w EXCEPT !.locked = FALSE]
EpochLock_unlock_as_epoch(w, epoch) == [w EXCEPT !.locked = FALSE, !.epoch = epoch]
store_release(w, src) == [w EXCEPT !.value = src]

\* Fault: a record without a destination reports a lock failure.
try_lock_tombstone_fails(e, cs, pin_epoch) ==
    IF tcell(e) # None
    THEN IF EpochLock_try_lock(cs[tcell(e)], pin_epoch)
         THEN [ok |-> TRUE, cells |-> [cs EXCEPT ![tcell(e)] = EpochLock_lock(@)]]
         ELSE [ok |-> FALSE, cells |-> cs]
    ELSE [ok |-> FALSE, cells |-> cs]

\* Fault: the record reports success and locks without asking the EpochLock.
try_lock_blind(e, cs, pin_epoch) ==
    IF tcell(e) # None
    THEN [ok |-> TRUE, cells |-> [cs EXCEPT ![tcell(e)] = EpochLock_lock(@)]]
    ELSE [ok |-> TRUE, cells |-> cs]

\* Fault: the pin epoch is not passed on; any unlocked version is accepted.
try_lock_ignores_pin(e, cs, pin_epoch) ==
    IF tcell(e) # None
    THEN IF EpochLock_try_lock(cs[tcell(e)], MaxEpoch)
         THEN [ok |-> TRUE, cells |-> [cs EXCEPT ![tcell(e)] = EpochLock_lock(@)]]
         ELSE [ok |-> FALSE, cells |-> cs]
    ELSE [ok |-> TRUE, cells |-> cs]

\* WriteEntry::try_lock: its result (ok) and the cells after it.
try_lock(e, cs, pin_epoch) ==
    IF tcell(e) # None
    THEN IF EpochLock_try_lock(cs[tcell(e)], pin_epoch)
         THEN [ok |-> TRUE, cells |-> [cs EXCEPT ![tcell(e)] = EpochLock_lock(@)]]
         ELSE [ok |-> FALSE, cells |-> cs]
    ELSE [ok |-> TRUE, cells |-> cs]

\* Fault: unlocking also resets the cell's version to the first epoch.
unlock_resets_epoch(e, cs) ==
    IF tcell(e) # None
    THEN [cs EXCEPT ![tcell(e)] = [locked |-> FALSE, epoch |-> 0, value |-> @.value]]
    ELSE cs

unlock(e, cs) ==
    IF tcell(e) # None THEN [cs EXCEPT ![tcell(e)] = EpochLock_unlock(@)] ELSE cs

\* Fault: the pending value is never stored.
perform_write_skip(e, cs) == cs

perform_write(e, cs) ==
    IF tcell(e) # None THEN [cs EXCEPT ![tcell(e)] = store_release(@, e.pending)] ELSE cs

\* Fault: `unlock` instead of `unlock_as_epoch`: the version is not stamped.
publish_unlock_only(e, cs, publish_epoch) ==
    IF tcell(e) # None THEN [cs EXCEPT ![tcell(e)] = EpochLock_unlock(@)] ELSE cs

publish(e, cs, publish_epoch) ==
    IF tcell(e) # None
    THEN [cs EXCEPT ![tcell(e)] = EpochLock_unlock_as_epoch(@, publish_epoch)]
    ELSE cs

\* --------------------------------------------------------------- write log
\* Index of the first record for which is_dest_tcell holds, 0 when there is none.
find_slow(d, dest_tcell) ==
    LET hits == { i \in 1 .. Len(d) : is_dest_tcell(d[i], dest_tcell) }
    IN  IF hits = {} THEN 0 ELSE CHOOSE i \in hits : \A j \in hits : i <= j

find(f, d, dest_tcell) ==
    IF contained(f, bloom_hash(dest_tcell)) = "No" THEN 0 ELSE find_slow(d, dest_tcell)

\* Fault: the slow path forgets the scan and always answers Vacant.
entry_slow_miss(d, dest_tcell, hash) == [kind |-> "Vacant", at |-> 0, hash |-> hash]

entry_slow(d, dest_tcell, hash) ==
    LET i == find_slow(d, dest_tcell)
    IN  IF i # 0 THEN [kind |-> "Occupied", at |-> i, hash |-> hash]
                 ELSE [kind |-> "Vacant", at |-> 0, hash |-> hash]

entry(f, d, dest_tcell) ==
    LET hash == bloom_hash(dest_tcell)
    IN  IF contained(f, hash) = "No"
        THEN [kind |-> "Vacant", at |-> 0, hash |-> hash]
        ELSE entry_slow(d, dest_tcell, hash)

\* Fault: the log always reports itself empty.
is_empty_always(f) == TRUE

is_empty(f) == f = {}

\* Fault: `self.filter = hash` instead of `self.filter |= hash`.
push_overwrite_filter(f, d, dest_tcell, val, hash) ==
    [filter |-> hash, data |-> Append(d, WriteEntryImpl_new(dest_tcell, val))]

push(f, d, dest_tcell, val, hash) ==
    [filter |-> f \cup hash, data |-> Append(d, WriteEntryImpl_new(dest_tcell, val))]

\* Fault: the unchecked push forgets `self.filter |= hash`.
push_unchecked_no_filter(f, d, dest_tcell, val, hash) ==
    [filter |-> f, data |-> Append(d, WriteEntryImpl_new(dest_tcell, val))]

push_unchecked(f, d, dest_tcell, val, hash) ==
    [filter |-> f \cup hash, data |-> Append(d, WriteEntryImpl_new(dest_tcell, val))]

ActiveAt(d, c) == { i \in 1 .. Len(d) : d[i].dest = c }

\* -------------------------------------------------------------------- Init
Init ==
    /\ filter = [l \in Logs |-> {}]
    /\ data = [l \in Logs |-> << >>]
    /\ cells = [c \in Cells |-> [locked |-> FALSE, epoch |-> 0, value |-> 0]]
    /\ clock = 0
    /\ pc = [l \in Logs |-> "idle"]
    /\ idx = [l \in Logs |-> 0]
    /\ failAt = [l \in Logs |-> 0]
    /\ pin = [l \in Logs |-> 0]
    /\ pubEpoch = [l \in Logs |-> 0]
    /\ held = [l \in Logs |-> {}]
    /\ tried = [l \in Logs |-> {}]
    /\ undone = [l \in Logs |-> {}]
    /\ overlap = [l \in Logs |-> {}]
    /\ pushed = [l \in Logs |-> {}]
    /\ lastVal = [l \in Logs |-> [c \in Cells |-> 0]]
    /\ firstOff = [l \in Logs |-> [c \in Cells |-> 0]]
    /\ preEpoch = [l \in Logs |-> [c \in Cells |-> 0]]
    /\ rewritten = [l \in Logs |-> {}]
    /\ origin = [l \in Logs |-> << >>]
    /\ leaked = [l \in Logs |-> {}]

\* ------------------------------------------------------- recording a write
\* The driver pins the current epoch and starts an attempt.
Begin(l) ==
    /\ pc[l] = "idle"
    /\ pc' = [pc EXCEPT ![l] = "recording"]
    /\ pin' = [pin EXCEPT ![l] = clock]
    /\ UNCHANGED << filter, data, cells, clock, idx, failAt, pubEpoch, held, hist >>

\* entry(c) answered Vacant; the driver pushes a new record with the hash
\* the Vacant handle carries.
WriteVacant(l, c, v, unchecked) ==
    /\ pc[l] = "recording"
    /\ Len(data[l]) < MaxLen
    /\ LET en == entry(filter[l], data[l], c)
           r  == IF unchecked
                 THEN push_unchecked(filter[l], data[l], c, v, en.hash)
                 ELSE push(filter[l], data[l], c, v, en.hash)
       IN  /\ en.kind = "Vacant"
           /\ filter' = [filter EXCEPT ![l] = r.filter]
           /\ data' = [data EXCEPT ![l] = r.data]
    /\ pushed' = [pushed EXCEPT ![l] = @ \cup {c}]
    /\ lastVal' = [lastVal EXCEPT ![l][c] = v]
    /\ firstOff' = [firstOff EXCEPT ![l][c] = Len(data[l]) + 1]
    /\ origin' = [origin EXCEPT ![l] = Append(@, c)]
    /\ UNCHANGED << cells, clock, pc, idx, failAt, pin, pubEpoch, held,
                    tried, undone, overlap, preEpoch, rewritten, leaked >>

\* entry(c) answered Occupied; the driver overwrites the pending value in place.
WriteOccupied(l, c, v) ==
    /\ pc[l] = "recording"
    /\ LET en == entry(filter[l], data[l], c)
       IN  /\ en.kind = "Occupied"
           /\ data' = [data EXCEPT ![l][en.at].pending = v]
    /\ lastVal' = [lastVal EXCEPT ![l][c] = v]
    /\ rewritten' = [rewritten EXCEPT ![l] = @ \cup {c}]
    /\ UNCHANGED << filter, cells, clock, pc, idx, failAt, pin, pubEpoch, held,
                    tried, undone, overlap, pushed, firstOff, preEpoch, origin,
                    leaked >>

\* entry(c) answered Occupied; the driver deactivates the record.
Deactivate(l, c) ==
    /\ pc[l] = "recording"
    /\ LET en == entry(filter[l], data[l], c)
       IN  /\ en.kind = "Occupied"
           /\ tcell(data[l][en.at]) # None
           /\ data' = [data EXCEPT ![l][en.at] = deactivate(@)]
    /\ lastVal' = [lastVal EXCEPT ![l][c] = 0]
    /\ firstOff' = [firstOff EXCEPT ![l][c] = 0]
    /\ rewritten' = [rewritten EXCEPT ![l] = @ \ {c}]
    /\ UNCHANGED << filter, cells, clock, pc, idx, failAt, pin, pubEpoch, held,
                    tried, undone, overlap, pushed, preEpoch, origin, leaked >>

\* Fault: the filter is zeroed and the container is left as it was.
clear_keeps_data(f, d) == [filter |-> {}, data |-> d]

\* Fault: the container is cleared and the filter is left as it was.
clear_keeps_filter(f, d) == [filter |-> f, data |-> << >>]

\* WriteLog::clear and WriteLog::clear_no_drop.
ClearLog(f, d) == [filter |-> {}, data |-> << >>]

Clear(l, no_drop) ==
    /\ pc[l] \in {"recording", "failed", "aborted", "published"}
    /\ LET r == ClearLog(filter[l], data[l])
       IN  /\ filter' = [filter EXCEPT ![l] = r.filter]
           /\ data' = [data EXCEPT ![l] = r.data]
    /\ pc' = [pc EXCEPT ![l] = "idle"]
    /\ pushed' = [pushed EXCEPT ![l] = {}]
    /\ lastVal' = [lastVal EXCEPT ![l] = [c \in Cells |-> 0]]
    /\ firstOff' = [firstOff EXCEPT ![l] = [c \in Cells |-> 0]]
    /\ idx' = [idx EXCEPT ![l] = 0]
    /\ failAt' = [failAt EXCEPT ![l] = 0]
    /\ pubEpoch' = [pubEpoch EXCEPT ![l] = 0]
    /\ tried' = [tried EXCEPT ![l] = {}]
    /\ undone' = [undone EXCEPT ![l] = {}]
    /\ overlap' = [overlap EXCEPT ![l] = {}]
    /\ preEpoch' = [preEpoch EXCEPT ![l] = [c \in Cells |-> 0]]
    /\ rewritten' = [rewritten EXCEPT ![l] = {}]
    /\ origin' = [origin EXCEPT ![l] = << >>]
    /\ UNCHANGED << cells, clock, pin, held, leaked >>

\* The driver abandons an attempt whose try_lock_entries returned true: it
\* clears the log without having called unlock_entries or publish.
Abandon(l, no_drop) ==
    /\ pc[l] \in {"locked", "written"}
    /\ LET r == ClearLog(filter[l], data[l])
       IN  /\ filter' = [filter EXCEPT ![l] = r.filter]
           /\ data' = [data EXCEPT ![l] = r.data]
    /\ pc' = [pc EXCEPT ![l] = "idle"]
    /\ leaked' = [leaked EXCEPT ![l] = @ \cup held[l]]
    /\ held' = [held EXCEPT ![l] = {}]
    /\ pushed' = [pushed EXCEPT ![l] = {}]
    /\ lastVal' = [lastVal EXCEPT ![l] = [c \in Cells |-> 0]]
    /\ firstOff' = [firstOff EXCEPT ![l] = [c \in Cells |-> 0]]
    /\ idx' = [idx EXCEPT ![l] = 0]
    /\ failAt' = [failAt EXCEPT ![l] = 0]
    /\ pubEpoch' = [pubEpoch EXCEPT ![l] = 0]
    /\ tried' = [tried EXCEPT ![l] = {}]
    /\ undone' = [undone EXCEPT ![l] = {}]
    /\ overlap' = [overlap EXCEPT ![l] = {}]
    /\ preEpoch' = [preEpoch EXCEPT ![l] = [c \in Cells |-> 0]]
    /\ rewritten' = [rewritten EXCEPT ![l] = {}]
    /\ origin' = [origin EXCEPT ![l] = << >>]
    /\ UNCHANGED << cells, clock, pin >>

\* --------------------------------------------------------- commit protocol
\* WriteLog::try_lock_entries is entered: debug_assert!(!self.is_empty()).
TryLockEntriesCall(l) ==
    /\ pc[l] = "recording"
    /\ ~is_empty(filter[l])
    /\ pc' = [pc EXCEPT ![l] = "locking"]
    /\ idx' = [idx EXCEPT ![l] = 1]
    /\ failAt' = [failAt EXCEPT ![l] = 0]
    /\ tried' = [tried EXCEPT ![l] = {}]
    /\ undone' = [undone EXCEPT ![l] = {}]
    /\ overlap' = [m \in Logs |->
                     IF m = l THEN { k \in Logs \ {l} : pc[k] \in {"locking", "unlocking"} }
                     ELSE IF pc[m] \in {"locking", "unlocking"} THEN overlap[m] \cup {l}
                     ELSE overlap[m]]
    /\ UNCHANGED << filter, data, cells, clock, pin, pubEpoch, held,
                    pushed, lastVal, firstOff, preEpoch, rewritten, origin,
                    leaked >>

\* One iteration of the loop of try_lock_entries: try_lock on the next record;
\* on failure control passes to unlock_entries_until(entry).
try_lock_entries_step(l) ==
    LET i == idx[l]
        e == data[l][i]
        r == try_lock(e, cells, pin[l])
        got == r.ok /\ tcell(e) # None
    IN  /\ pc[l] = "locking"
        /\ cells' = r.cells
        /\ tried' = [tried EXCEPT ![l] = @ \cup {i}]
        /\ held' = [held EXCEPT ![l] = IF got THEN @ \cup {tcell(e)} ELSE @]
        /\ preEpoch' = [preEpoch EXCEPT ![l] =
                          IF got THEN [@ EXCEPT ![tcell(e)] = cells[tcell(e)].epoch] ELSE @]
        /\ IF r.ok
           THEN /\ pc' = [pc EXCEPT ![l] = IF i = Len(data[l]) THEN "locked" ELSE "locking"]
                /\ idx' = [idx EXCEPT ![l] = IF i = Len(data[l]) THEN 1 ELSE i + 1]
                /\ UNCHANGED failAt
           ELSE /\ pc' = [pc EXCEPT ![l] = "unlocking"]
                /\ idx' = [idx EXCEPT ![l] = 1]
                /\ failAt' = [failAt EXCEPT ![l] = i]
        /\ UNCHANGED << filter, data, clock, pin, pubEpoch,
                        undone, overlap, pushed, lastVal, firstOff, rewritten, origin,
                        leaked >>

\* Fault: the take_while is dropped; every record is unlocked.
unlock_until_takes_all(j, failed_at) == TRUE

\* Fault: nothing is rolled back.
unlock_until_takes_none(j, failed_at) == FALSE

\* take_while(|e| !ptr::eq(e, entry)): does the iteration reach record j?
unlock_until_takes(j, failed_at) == j # failed_at

\* One iteration of unlock_entries_until; when take_while stops,
\* try_lock_entries returns false.
unlock_entries_until_step(l) ==
    LET j == idx[l]
        e == data[l][j]
    IN  /\ pc[l] = "unlocking"
        /\ IF j <= Len(data[l]) /\ unlock_until_takes(j, failAt[l])
           THEN /\ cells' = unlock(e, cells)
                /\ undone' = [undone EXCEPT ![l] = @ \cup {j}]
                /\ held' = [held EXCEPT ![l] = IF tcell(e) # None THEN @ \ {tcell(e)} ELSE @]
                /\ idx' = [idx EXCEPT ![l] = j + 1]
                /\ UNCHANGED pc
           ELSE /\ pc' = [pc EXCEPT ![l] = "failed"]
                /\ UNCHANGED << cells, undone, held, idx >>
        /\ UNCHANGED << filter, data, clock, failAt, pin, pubEpoch,
                        tried, overlap, pushed, lastVal, firstOff, preEpoch, rewritten,
                        origin, leaked >>

\* One iteration of unlock_entries, which the driver calls when validation of
\* its reads fails after try_lock_entries returned true.
unlock_entries_step(l) ==
    LET j == idx[l]
        e == data[l][j]
    IN  /\ pc[l] \in {"locked", "aborting"}
        /\ cells' = unlock(e, cells)
        /\ held' = [held EXCEPT ![l] = IF tcell(e) # None THEN @ \ {tcell(e)} ELSE @]
        /\ pc' = [pc EXCEPT ![l] = IF j = Len(data[l]) THEN "aborted" ELSE "aborting"]
        /\ idx' = [idx EXCEPT ![l] = IF j = Len(data[l]) THEN 1 ELSE j + 1]
        /\ UNCHANGED << filter, data, clock, failAt, pin, pubEpoch, hist >>

\* One iteration of perform_writes.
perform_writes_step(l) ==
    LET j == idx[l]
        e == data[l][j]
    IN  /\ pc[l] \in {"locked", "writing"}
        /\ cells' = perform_write(e, cells)
        /\ pc' = [pc EXCEPT ![l] = IF j = Len(data[l]) THEN "written" ELSE "writing"]
        /\ idx' = [idx EXCEPT ![l] = IF j = Len(data[l]) THEN 1 ELSE j + 1]
        /\ UNCHANGED << filter, data, clock, failAt, pin, pubEpoch, held, hist >>

\* The driver ticks the global clock; the new epoch is the commit epoch.
Tick(l) ==
    /\ pc[l] = "written"
    /\ clock < MaxEpoch
    /\ clock' = clock + 1
    /\ pubEpoch' = [pubEpoch EXCEPT ![l] = clock + 1]
    /\ pc' = [pc EXCEPT ![l] = "publishing"]
    /\ UNCHANGED << filter, data, cells, idx, failAt, pin, held, hist >>

\* One iteration of WriteLog::publish.
publish_step(l) ==
    LET j == idx[l]
        e == data[l][j]
    IN  /\ pc[l] = "publishing"
        /\ cells' = publish(e, cells, pubEpoch[l])
        /\ held' = [held EXCEPT ![l] = IF tcell(e) # None THEN @ \ {tcell(e)} ELSE @]
        /\ pc' = [pc EXCEPT ![l] = IF j = Len(data[l]) THEN "published" ELSE "publishing"]
        /\ idx' = [idx EXCEPT ![l] = IF j = Len(data[l]) THEN 1 ELSE j + 1]
        /\ UNCHANGED << filter, data, clock, failAt, pin, pubEpoch, hist >>

\* ---------------------------------------------------------- specification
\* Cells the racing transactions write, and the value each of them writes.
TxCells == {16, 32}
ValOf(l) == IF l = "L1" THEN 1 ELSE 2

\* Two transactions race over overlapping write sets.
Next ==
    \E l \in Logs :
        \/ Begin(l)
        \/ \E c \in TxCells, u \in BOOLEAN : WriteVacant(l, c, ValOf(l), u)
        \/ \E n \in BOOLEAN : Clear(l, n)
        \/ TryLockEntriesCall(l)
        \/ try_lock_entries_step(l)
        \/ unlock_entries_until_step(l)
        \/ unlock_entries_step(l)
        \/ perform_writes_step(l)
        \/ Tick(l)
        \/ publish_step(l)

Spec == Init /\ [][Next]_vars

\* A thread inside try_lock_entries is never suspended by the log: it keeps
\* taking the steps of the locking loop and of its rollback.
FairSpec ==
    Spec /\ \A l \in Logs : /\ WF_vars(try_lock_entries_step(l))
                            /\ WF_vars(unlock_entries_until_step(l))

\* One transaction alone records, overwrites, deactivates and clears on every cell.
NextLog ==
    \/ Begin("L1")
    \/ \E c \in Cells, v \in Values, u \in BOOLEAN : WriteVacant("L1", c, v, u)
    \/ \E c \in Cells, v \in Values : WriteOccupied("L1", c, v)
    \/ \E c \in Cells : Deactivate("L1", c)
    \/ \E n \in BOOLEAN : Clear("L1", n)

SpecLog == Init /\ [][NextLog]_vars

\* One transaction alone runs whole attempts, with deactivated records in its
\* log, and may abandon an attempt while it holds locks.
NextSolo ==
    \/ Begin("L1")
    \/ \E c \in TxCells, u \in BOOLEAN : WriteVacant("L1", c, ValOf("L1"), u)
    \/ \E c \in TxCells : Deactivate("L1", c)
    \/ \E n \in BOOLEAN : Clear("L1", n)
    \/ \E n \in BOOLEAN : Abandon("L1", n)
    \/ TryLockEntriesCall("L1")
    \/ try_lock_entries_step("L1")
    \/ unlock_entries_until_step("L1")
    \/ unlock_entries_step("L1")
    \/ perform_writes_step("L1")
    \/ Tick("L1")
    \/ publish_step("L1")

SpecSolo == Init /\ [][NextSolo]_vars

\* ------------------------------------------------------------------ claims
\* C1: within one log lifetime, whatever entry / push / push_unchecked /
\* deactivate calls were made, every cell has at most one record that targets
\* it and is not deactivated.
C1_AtMostOneActive ==
    \A l \in Logs : \A c \in Cells : Cardinality(ActiveAt(data[l], c)) <= 1

\* A cell was recorded, deactivated and recorded again: a tombstone followed
\* by the one active record of the same cell.
C1_Witness ==
    /\ Len(data["L1"]) = 2
    /\ pushed["L1"] = {16}
    /\ tcell(data["L1"][1]) = None
    /\ tcell(data["L1"][2]) = 16

\* C2: the filter has no false negatives: a cell with an active record is
\* never answered No, so No is only answered for cells without a record; and
\* a cell never recorded since the last clear is answered Maybe only when its
\* hash bit is the bit of a cell that was recorded.
C2_FilterSound ==
    \A l \in Logs : \A c \in Cells :
        /\ ActiveAt(data[l], c) # {} => contained(filter[l], bloom_hash(c)) = "Maybe"
        /\ contained(filter[l], bloom_hash(c)) = "No" =>
               \A i \in 1 .. Len(data[l]) : ~is_dest_tcell(data[l][i], c)
        /\ (c \notin pushed[l] /\ contained(filter[l], bloom_hash(c)) = "Maybe") =>
               \E d \in pushed[l] : d # c /\ bloom_hash(d) = bloom_hash(c)

\* 16 is recorded: 1040, never recorded, collides with it and is answered
\* Maybe, and 32 is answered No.
C2_Witness ==
    /\ ActiveAt(data["L1"], 16) # {}
    /\ pushed["L1"] = {16}
    /\ contained(filter["L1"], bloom_hash(16)) = "Maybe"
    /\ contained(filter["L1"], bloom_hash(1040)) = "Maybe"
    /\ contained(filter["L1"], bloom_hash(32)) = "No"

\* C10: writes applied through entry coalesce: every written cell has exactly
\* one active record, at the offset where the cell was first recorded, holding
\* the value of the last write; entry answers Occupied for it, and a cell not
\* written has no active record and find answers none.
C10_Coalescing ==
    \A l \in Logs : \A c \in Cells :
        IF lastVal[l][c] # 0
        THEN /\ ActiveAt(data[l], c) = {firstOff[l][c]}
             /\ data[l][firstOff[l][c]].pending = lastVal[l][c]
             /\ entry(filter[l], data[l], c).kind = "Occupied"
             /\ entry(filter[l], data[l], c).at = firstOff[l][c]
        ELSE /\ ActiveAt(data[l], c) = {}
             /\ find(filter[l], data[l], c) = 0
             /\ entry(filter[l], data[l], c).kind = "Vacant"

\* A=1, B=2, A=3: one record for A holding 3 at the first offset, one for B
\* holding 2, entry(A) Occupied and find(C) none for the colliding cell C.
C10_Witness ==
    /\ data["L1"] = << WriteEntryImpl_new(16, 3), WriteEntryImpl_new(32, 2) >>
    /\ rewritten["L1"] = {16}
    /\ entry(filter["L1"], data["L1"], 16).kind = "Occupied"
    /\ contained(filter["L1"], bloom_hash(1040)) = "Maybe"
    /\ find(filter["L1"], data["L1"], 1040) = 0

\* Cells of the active records of a log.
ActiveCells(l) == { tcell(data[l][i]) : i \in 1 .. Len(data[l]) } \ {None}

\* try_lock_entries of l returned true / returned false.
Succeeded(l) ==
    pc[l] \in {"locked", "writing", "written", "publishing", "published",
               "aborting", "aborted"}
Failed(l) == pc[l] = "failed"

\* l takes a step of the locking loop, on the record at idx[l].
TryLockStepOf(l) == pc[l] = "locking" /\ tried'[l] # tried[l]

\* C3: no cell's lock is held by two logs at once, every held cell is locked,
\* and a try_lock on a cell another log holds fails and acquires nothing.
C3_Inv ==
    /\ \A l1 \in Logs : \A l2 \in Logs \ {l1} : held[l1] \cap held[l2] = {}
    /\ \A l \in Logs : \A c \in held[l] : cells[c].locked

C3_Act ==
    \A l \in Logs :
        (TryLockStepOf(l) /\ \E m \in Logs \ {l} : tcell(data[l][idx[l]]) \in held[m])
            => (cells' = cells /\ held'[l] = held[l] /\ pc'[l] = "unlocking")

C3_MutualExclusion == [] C3_Inv /\ [][C3_Act]_vars

\* L2 tried a cell L1 holds and is rolling back while L1 still holds it.
C3_Witness ==
    /\ pc["L2"] = "unlocking"
    /\ tcell(data["L2"][failAt["L2"]]) \in held["L1"]
    /\ held["L2"] # {}

\* C4: when try_lock_entries fails at record k it calls unlock on exactly the
\* records before k, not on record k, has called try_lock on no record after
\* k, and returns false.
C4_LockUnlockSymmetry ==
    \A l \in Logs :
        /\ pc[l] = "unlocking" =>
               /\ failAt[l] \in 1 .. Len(data[l])
               /\ tried[l] = 1 .. failAt[l]
               /\ undone[l] \subseteq 1 .. (failAt[l] - 1)
        /\ pc[l] = "failed" =>
               /\ failAt[l] \in 1 .. Len(data[l])
               /\ tried[l] = 1 .. failAt[l]
               /\ undone[l] = 1 .. (failAt[l] - 1)
               /\ \A i \in undone[l] : tcell(data[l][i]) \notin held[l]

\* A call that failed at its second record after locking the first.
C4_Witness ==
    /\ pc["L1"] = "failed"
    /\ Len(data["L1"]) = 2
    /\ failAt["L1"] = 2
    /\ undone["L1"] = {1}

\* The last try_lock_entries calls of l1 and l2 ran with overlapping timing,
\* both returned, and both logs hold a record for a common cell.
Raced(l1, l2) ==
    /\ l1 # l2
    /\ l2 \in overlap[l1] /\ l1 \in overlap[l2]
    /\ ActiveCells(l1) \cap ActiveCells(l2) # {}
    /\ (Succeeded(l1) \/ Failed(l1)) /\ (Succeeded(l2) \/ Failed(l2))

\* l gave its locks back through unlock_entries after its call succeeded.
Aborted(l) == pc[l] \in {"aborting", "aborted"}

\* C5 (as amended): of two overlapping try_lock_entries calls of logs that
\* both record cell X, both succeed only if one of the logs has gone on to
\* unlock_entries, so the two never hold X together; both may fail; and a
\* call that returned false holds no cell lock.
C5_NeverBothHolding ==
    \A l1 \in Logs : \A l2 \in Logs :
        Raced(l1, l2) =>
            /\ (Succeeded(l1) /\ Succeeded(l2)) => (Aborted(l1) \/ Aborted(l2))
            /\ held[l1] \cap held[l2] \cap ActiveCells(l1) \cap ActiveCells(l2) = {}
            /\ Failed(l1) => held[l1] = {}

\* C5 (as stated): exactly one of the two calls succeeds.
C5_ExactlyOneSucceeds ==
    \A l1 \in Logs : \A l2 \in Logs :
        Raced(l1, l2) => /\ (Succeeded(l1) /\ Failed(l2)) \/ (Failed(l1) /\ Succeeded(l2))
                         /\ Failed(l1) => held[l1] = {}

\* L1 and L2 both write only cell 16; L1 won the race and L2 lost it.
C5_Witness ==
    /\ Raced("L1", "L2")
    /\ ActiveCells("L1") = {16} /\ ActiveCells("L2") = {16}
    /\ Succeeded("L1") /\ Failed("L2")
    /\ 16 \in held["L1"] /\ held["L2"] = {}

\* C6: two transactions with the same pin epoch that both record cell X never
\* both reach publish; a log holds a cell's lock only if the version it found
\* was no newer than its pin epoch, and try_lock on a cell whose version is
\* newer than the pin epoch fails without acquiring it.
C6_Inv ==
    /\ \A l1 \in Logs : \A l2 \in Logs \ {l1} :
           ( /\ pin[l1] = pin[l2]
             /\ ActiveCells(l1) \cap ActiveCells(l2) # {} )
           => ~( pc[l1] \in {"publishing", "published"}
                 /\ pc[l2] \in {"publishing", "published"} )
    /\ \A l \in Logs : \A c \in held[l] : cells[c].epoch <= pin[l]

C6_Act ==
    \A l \in Logs :
        (TryLockStepOf(l) /\ tcell(data[l][idx[l]]) # None
                          /\ cells[tcell(data[l][idx[l]])].epoch > pin[l])
            => (cells' = cells /\ held'[l] = held[l] /\ pc'[l] = "unlocking")

C6_NoLostUpdate == [] C6_Inv /\ [][C6_Act]_vars

\* L1 and L2 pinned the same epoch and both recorded 16; L1 published it with
\* a newer epoch and L2's locking then failed at it.
C6_Witness ==
    /\ pin["L1"] = pin["L2"]
    /\ 16 \in ActiveCells("L1") \cap ActiveCells("L2")
    /\ pc["L1"] = "published"
    /\ cells[16].epoch = pubEpoch["L1"] /\ cells[16].epoch > pin["L2"]
    /\ Failed("L2") /\ tcell(data["L2"][failAt["L2"]]) = 16

\* Record i of l has been stored by perform_writes / released by publish.
Written(l, i) ==
    \/ pc[l] = "writing" /\ i < idx[l]
    \/ pc[l] \in {"written", "publishing", "published"}
Published(l, i) ==
    \/ pc[l] = "publishing" /\ i < idx[l]
    \/ pc[l] = "published"

\* C7: publish(E) after perform_writes leaves the cell of every active record
\* (C, V) with value V, version E and its lock released, in the step that
\* publishes it; until another transaction takes the cell it stays so, and
\* before that step the cell holds V under the log's lock.
C7_Inv ==
    \A l \in Logs : \A i \in 1 .. Len(data[l]) :
        LET c == tcell(data[l][i])
            done == [locked |-> FALSE, epoch |-> pubEpoch[l], value |-> data[l][i].pending]
        IN  c # None =>
              /\ (Written(l, i) /\ ~Published(l, i)) =>
                    (cells[c].locked /\ cells[c].value = data[l][i].pending)
              /\ Published(l, i) =>
                    \/ cells[c] = done
                    \/ cells[c].epoch > pubEpoch[l]
                    \/ \E m \in Logs \ {l} : c \in held[m]

C7_Act ==
    \A l \in Logs :
        (pc[l] = "publishing" /\ << pc'[l], idx'[l] >> # << pc[l], idx[l] >>
                              /\ tcell(data[l][idx[l]]) # None)
            => cells'[tcell(data[l][idx[l]])] =
                   [locked |-> FALSE, epoch |-> pubEpoch[l],
                    value |-> data[l][idx[l]].pending]

C7_RoundTrip == [] C7_Inv /\ [][C7_Act]_vars

\* L1 published two records: both cells hold its value and its commit epoch,
\* unlocked.
C7_Witness ==
    /\ pc["L1"] = "published"
    /\ Len(data["L1"]) = 2
    /\ \A i \in 1 .. 2 :
           cells[tcell(data["L1"][i])] =
               [locked |-> FALSE, epoch |-> pubEpoch["L1"], value |-> data["L1"][i].pending]
    /\ pubEpoch["L1"] = 2

\* C8: during a commit no cell is unlocked while it holds the newly written
\* value under its pre-commit version: from perform_write to publish the cell
\* stays locked with the old version, and once published its version is new.
C8_PublishAtomic ==
    \A l \in Logs : \A i \in 1 .. Len(data[l]) :
        LET c == tcell(data[l][i])
        IN  (c # None /\ Written(l, i)) =>
              /\ ~( /\ ~cells[c].locked
                    /\ cells[c].value = data[l][i].pending
                    /\ cells[c].epoch = preEpoch[l][c] )
              /\ ~Published(l, i) => (cells[c].locked /\ cells[c].epoch = preEpoch[l][c])
              /\ Published(l, i) => cells[c].epoch > preEpoch[l][c]

\* Midway through publish: the first cell is unlocked with the new version,
\* the second still locked with the new value and the old version.
C8_Witness ==
    /\ pc["L1"] = "publishing" /\ idx["L1"] = 2
    /\ cells[tcell(data["L1"][1])] =
           [locked |-> FALSE, epoch |-> pubEpoch["L1"], value |-> data["L1"][1].pending]
    /\ cells[tcell(data["L1"][2])].locked
    /\ cells[tcell(data["L1"][2])].value = data["L1"][2].pending
    /\ cells[tcell(data["L1"][2])].epoch < pubEpoch["L1"]

\* C9: try_lock_entries never waits: in every state of the locking loop and
\* of its rollback the log's next step can be taken, whatever the other logs
\* hold; a call that returned false holds no lock; and every call returns.
C9_NonBlocking ==
    \A l \in Logs :
        /\ pc[l] = "locking" => ENABLED try_lock_entries_step(l)
        /\ pc[l] = "unlocking" => ENABLED unlock_entries_until_step(l)
        /\ Failed(l) => held[l] = {}

C9_Returns ==
    \A l \in Logs : (pc[l] = "locking") ~> (pc[l] \in {"locked", "failed"})

C9_DeadlockFree == [] C9_NonBlocking /\ C9_Returns

\* Opposite insertion orders: each log holds the cell the other wants next.
C9_Witness ==
    /\ pc["L1"] = "locking" /\ pc["L2"] = "locking"
    /\ idx["L1"] = 2 /\ idx["L2"] = 2
    /\ held["L1"] = {16} /\ held["L2"] = {32}
    /\ tcell(data["L1"][2]) = 32 /\ tcell(data["L2"][2]) = 16

\* C11: find agrees with an exact scan: it answers a record exactly when the
\* log holds an active record for the cell, and then that record; it answers
\* none when the filter says No, when the filter says Maybe by a collision
\* only, and when the cell's record has been deactivated.
C11_FindExact ==
    \A l \in Logs : \A c \in Cells :
        LET r == find(filter[l], data[l], c)
        IN  /\ r # 0 <=> ActiveAt(data[l], c) # {}
            /\ r # 0 => (r \in 1 .. Len(data[l]) /\ data[l][r].dest = c)
            /\ contained(filter[l], bloom_hash(c)) = "No" => r = 0
            /\ (\E i \in 1 .. Len(data[l]) : origin[l][i] = c /\ tcell(data[l][i]) = None)
                   /\ ActiveAt(data[l], c) = {} => r = 0

\* 1040 was recorded and deactivated, 16 is recorded after it: find answers
\* none for 1040 (filter Maybe), the record for 16, none for 32 (filter No).
C11_Witness ==
    /\ origin["L1"] = << 1040, 16 >>
    /\ tcell(data["L1"][1]) = None
    /\ contained(filter["L1"], bloom_hash(1040)) = "Maybe"
    /\ find(filter["L1"], data["L1"], 1040) = 0
    /\ find(filter["L1"], data["L1"], 16) = 2
    /\ contained(filter["L1"], bloom_hash(32)) = "No"
    /\ find(filter["L1"], data["L1"], 32) = 0

\* C12: entry answers Occupied exactly when the log holds an active record
\* for the cell, with a handle to that record, and otherwise Vacant with the
\* cell's hash; it is Occupied exactly when find answers a record.
C12_EntryExact ==
    \A l \in Logs : \A c \in Cells :
        LET en == entry(filter[l], data[l], c)
        IN  /\ en.kind = "Occupied" <=> ActiveAt(data[l], c) # {}
            /\ en.kind = "Occupied" => (en.at \in ActiveAt(data[l], c))
            /\ en.kind = "Vacant" => (en.at = 0 /\ en.hash = bloom_hash(c))
            /\ en.kind \in {"Occupied", "Vacant"}
            /\ en.kind = "Occupied" <=> find(filter[l], data[l], c) # 0
            /\ en.kind = "Occupied" => en.at = find(filter[l], data[l], c)

\* 32 and 16 are recorded: entry(16) is Occupied at the second record, and
\* entry(1040), which collides with 16, is Vacant by the slow path.
C12_Witness ==
    /\ origin["L1"] = << 32, 16 >>
    /\ entry(filter["L1"], data["L1"], 16) =
           [kind |-> "Occupied", at |-> 2, hash |-> bloom_hash(16)]
    /\ contained(filter["L1"], bloom_hash(1040)) = "Maybe"
    /\ entry(filter["L1"], data["L1"], 1040).kind = "Vacant"

\* C13: the filter word is zero exactly when the container is empty, every
\* record of the container (deactivated or not) has its cell's bit set and
\* every set bit is the bit of such a record, and the filter goes to zero in
\* exactly the steps in which the container is emptied.
C13_Inv ==
    \A l \in Logs :
        /\ is_empty(filter[l]) <=> Len(data[l]) = 0
        /\ Len(origin[l]) = Len(data[l])
        /\ \A i \in 1 .. Len(data[l]) : tcell(data[l][i]) \in {origin[l][i], None}
        /\ filter[l] = UNION { bloom_hash(origin[l][i]) : i \in 1 .. Len(data[l]) }

C13_Act ==
    \A l \in Logs :
        (filter[l] # {} /\ filter'[l] = {}) <=> (data[l] # << >> /\ data'[l] = << >>)

C13_FilterAgrees == [] C13_Inv /\ [][C13_Act]_vars

\* Two records whose cells share one filter bit.
C13_Witness ==
    /\ origin["L1"] = << 16, 1040 >>
    /\ ActiveAt(data["L1"], 16) = {1} /\ ActiveAt(data["L1"], 1040) = {2}
    /\ filter["L1"] = bloom_hash(16)
    /\ ~is_empty(filter["L1"])

\* C17: on every reachable log and for every cell without an active record,
\* push and push_unchecked give the same log: the old records unchanged, one
\* active record for the cell appended, and the hash or-ed into the filter.
C17_PushEquivalent ==
    \A l \in Logs : \A c \in Cells : \A v \in Values :
        LET en == entry(filter[l], data[l], c)
            a == push(filter[l], data[l], c, v, en.hash)
            b == push_unchecked(filter[l], data[l], c, v, en.hash)
        IN  en.kind = "Vacant" =>
              /\ a = b
              /\ Len(b.data) = Len(data[l]) + 1
              /\ \A i \in 1 .. Len(data[l]) : b.data[i] = data[l][i]
              /\ b.data[Len(b.data)] = [dest |-> c, pending |-> v]
              /\ b.filter = filter[l] \cup bloom_hash(c)

\* A log holding 16 on which 32 (filter No) and 1040 (filter Maybe) can
\* still be pushed.
C17_Witness ==
    /\ origin["L1"] = << 16 >>
    /\ ActiveAt(data["L1"], 16) = {1}
    /\ entry(filter["L1"], data["L1"], 32).kind = "Vacant"
    /\ entry(filter["L1"], data["L1"], 1040).kind = "Vacant"
    /\ push(filter["L1"], data["L1"], 1040, 1, bloom_hash(1040)).filter = filter["L1"]
    /\ push_unchecked(filter["L1"], data["L1"], 32, 1, bloom_hash(32)).filter # filter["L1"]

\* The step is one of log l's own operations.
Stepper(l) == << pc[l], idx[l], data[l] >> # << pc'[l], idx'[l], data'[l] >>

\* Log l is inside a call of try_lock_entries.
InTryLock(l) == pc[l] \in {"locking", "unlocking"}

\* C16: a failed try_lock_entries is undone: while the call runs, a cell it
\* has locked keeps the version it had when it was locked and is changed by
\* no other log; each step of the call leaves every stored value, the log's
\* records and its filter unchanged and touches only the cell it locks or
\* unlocks; the rollback returns each cell unlocked with the version it had
\* before; and when the call has returned false the log holds no lock.
C16_Inv ==
    \A l \in Logs :
        /\ InTryLock(l) =>
              \A c \in held[l] : cells[c].locked /\ cells[c].epoch = preEpoch[l][c]
        /\ Failed(l) => held[l] = {}

C16_Act ==
    \A l \in Logs :
        /\ InTryLock(l) /\ ~Stepper(l) => \A c \in held[l] : cells'[c] = cells[c]
        /\ InTryLock(l) /\ Stepper(l) =>
              /\ data'[l] = data[l] /\ filter'[l] = filter[l]
              /\ \A c \in Cells :
                    /\ cells'[c].value = cells[c].value
                    /\ c \notin (held[l] \ held'[l]) \cup (held'[l] \ held[l]) =>
                           cells'[c] = cells[c]
              /\ \A c \in held'[l] \ held[l] :
                    cells'[c] = [cells[c] EXCEPT !.locked = TRUE]
              /\ \A c \in held[l] \ held'[l] :
                    /\ pc[l] = "unlocking"
                    /\ cells'[c] = [locked |-> FALSE, epoch |-> preEpoch[l][c],
                                    value |-> cells[c].value]
              /\ pc'[l] = "failed" => held'[l] = {}

C16_FailedLockUndone == [] C16_Inv /\ [][C16_Act]_vars

\* L2 locked 16, whose version was 1, failed on its second record and has
\* returned: 16 is unlocked at version 1 again and the log is as recorded.
C16_Witness ==
    /\ Failed("L2") /\ failAt["L2"] = 2 /\ undone["L2"] = {1}
    /\ tcell(data["L2"][1]) = 16 /\ preEpoch["L2"][16] = 1
    /\ cells[16].locked = FALSE /\ cells[16].epoch = 1
    /\ Len(data["L2"]) = 2 /\ ~is_empty(filter["L2"])

\* C18: a log releases only locks it acquired: a cell held by a log is
\* locked, and a step that unlocks a locked cell or changes its version is a
\* step of a log that holds the cell; no step of another log does so.
C18_Inv ==
    \A l \in Logs : \A c \in held[l] :
        cells[c].locked /\ \A k \in Logs \ {l} : c \notin held[k]

C18_Act ==
    \A c \in Cells :
        /\ cells[c].locked /\ (~cells'[c].locked \/ cells'[c].epoch # cells[c].epoch) =>
              \E l \in Logs :
                  /\ Stepper(l) /\ c \in held[l]
                  /\ pc[l] \in {"unlocking", "locked", "aborting", "publishing"}
        /\ \A l \in Logs :
              c \in held[l] /\ ~Stepper(l) =>
                  cells'[c].locked /\ cells'[c].epoch = cells[c].epoch

C18_ReleasesOnlyOwnLocks == [] C18_Inv /\ [][C18_Act]_vars

\* L2 has rolled back a call that failed on a cell L1 holds; L1 still holds
\* it, locked.
C18_Witness ==
    /\ Failed("L2") /\ failAt["L2"] = 2 /\ undone["L2"] = {1}
    /\ tcell(data["L2"][2]) \in held["L1"]
    /\ cells[tcell(data["L2"][2])].locked
    /\ ~cells[tcell(data["L2"][1])].locked

\* The step is a call of clear or clear_no_drop on log l.
ClearStep(l) == pc[l] # "idle" /\ pc'[l] = "idle"

\* C14: after clear / clear_no_drop the log is empty: is_empty is true, the
\* container has no record and contained answers No for every one-bit hash;
\* clearing an empty log leaves it empty; clearing twice equals clearing once.
C14_Inv ==
    \A l \in Logs :
        LET r == ClearLog(filter[l], data[l])
        IN  /\ is_empty(r.filter) /\ r.data = << >>
            /\ \A k \in 0 .. WordBits - 1 : contained(r.filter, {k}) = "No"
            /\ ClearLog(r.filter, r.data) = r
            /\ is_empty(filter[l]) =>
                   (r = [filter |-> filter[l], data |-> data[l]] /\ is_empty(r.filter))

C14_Act ==
    \A l \in Logs :
        ClearStep(l) =>
            /\ is_empty(filter'[l]) /\ Len(data'[l]) = 0
            /\ \A k \in 0 .. WordBits - 1 : contained(filter'[l], {k}) = "No"
            /\ \A c \in Cells : find(filter'[l], data'[l], c) = 0

C14_ClearResets == [] C14_Inv /\ [][C14_Act]_vars

\* The log is empty again after an attempt that committed a write to 16.
C14_Witness ==
    /\ pc["L1"] = "idle" /\ cells[16].epoch >= 1 /\ cells[16].value = ValOf("L1")
    /\ is_empty(filter["L1"]) /\ data["L1"] = << >>

\* Log l works on a deactivated record in this step.
OnDeactivated(l) ==
    /\ pc[l] \in {"locking", "unlocking", "locked", "aborting", "writing", "publishing"}
    /\ idx[l] \in 1 .. Len(data[l])
    /\ tcell(data[l][idx[l]]) = None
    /\ pc[l] = "unlocking" => unlock_until_takes(idx[l], failAt[l])

\* C15: a deactivated record is inert: try_lock on it answers true and
\* unlock, perform_write and publish on it leave every cell as it is, in the
\* functions and in the steps of the loops that reach it; is_dest_tcell on it
\* is false for every cell; deactivating a record keeps the number and order
\* of the records, every other record, and the filter.
C15_Inv ==
    \A l \in Logs : \A i \in 1 .. Len(data[l]) :
        LET e == data[l][i]
        IN  tcell(e) = None =>
              /\ try_lock(e, cells, pin[l]) = [ok |-> TRUE, cells |-> cells]
              /\ unlock(e, cells) = cells
              /\ perform_write(e, cells) = cells
              /\ \A ep \in 0 .. MaxEpoch : publish(e, cells, ep) = cells
              /\ \A c \in Cells : ~is_dest_tcell(e, c)

C15_Act ==
    \A l \in Logs :
        /\ OnDeactivated(l) /\ Stepper(l) /\ ~ClearStep(l) =>
              /\ cells' = cells /\ held' = held
              /\ pc[l] = "locking" => pc'[l] \in {"locking", "locked"}
        /\ \A i \in 1 .. Len(data[l]) :
              (i <= Len(data'[l]) /\ tcell(data[l][i]) # None /\ tcell(data'[l][i]) = None) =>
                  /\ Len(data'[l]) = Len(data[l])
                  /\ \A j \in 1 .. Len(data[l]) : j # i => data'[l][j] = data[l][j]
                  /\ data'[l][i].pending = data[l][i].pending
                  /\ filter'[l] = filter[l] /\ cells' = cells

C15_DeactivatedInert == [] C15_Inv /\ [][C15_Act]_vars

\* The first record was deactivated and the log went through locking,
\* writing and publishing with it: only the second record's cell was written.
C15_Witness ==
    /\ pc["L1"] = "published" /\ Len(data["L1"]) = 2
    /\ origin["L1"] = << 16, 32 >>
    /\ tcell(data["L1"][1]) = None /\ tcell(data["L1"][2]) = 32
    /\ cells[16] = [locked |-> FALSE, epoch |-> 0, value |-> 0]
    /\ cells[32] = [locked |-> FALSE, epoch |-> pubEpoch["L1"], value |-> ValOf("L1")]

\* Every record of the non-empty log l is deactivated.
AllDeactivated(l) ==
    Len(data[l]) > 0 /\ \A i \in 1 .. Len(data[l]) : tcell(data[l][i]) = None

\* C19: deactivation never empties the log: when every record is deactivated
\* is_empty is still false and the bits of the records' cells are still set,
\* and they stay until a clear; try_lock_entries on such a log does not fail
\* and acquires no lock, and its perform_writes and publish change no cell.
C19_Inv ==
    \A l \in Logs :
        AllDeactivated(l) =>
            /\ ~is_empty(filter[l])
            /\ filter[l] = UNION { bloom_hash(origin[l][i]) : i \in 1 .. Len(data[l]) }
            /\ pc[l] \notin {"unlocking", "failed"}
            /\ pc[l] \in {"locking", "locked", "writing", "written", "publishing",
                          "published", "aborting", "aborted"} => held[l] = {}

C19_Act ==
    \A l \in Logs :
        /\ AllDeactivated(l) /\ Stepper(l) /\ ~ClearStep(l) =>
              /\ cells' = cells
              /\ filter[l] \subseteq filter'[l]
        /\ (\E c \in Cells : bloom_hash(c) \subseteq filter[l] /\ ~(bloom_hash(c) \subseteq filter'[l]))
              => ClearStep(l)

C19_DeactivationKeepsLog == [] C19_Inv /\ [][C19_Act]_vars

\* A log whose only records are deactivated went through try_lock_entries,
\* perform_writes and publish: no cell was locked, written or re-stamped.
C19_Witness ==
    /\ AllDeactivated("L1") /\ Len(data["L1"]) = 2
    /\ pc["L1"] = "published" /\ pubEpoch["L1"] = 1
    /\ \A c \in Cells : cells[c] = [locked |-> FALSE, epoch |-> 0, value |-> 0]
    /\ ~is_empty(filter["L1"])

\* C20: clear and clear_no_drop change no cell; the cells a log had locked
\* when it was cleared without publish or unlock_entries stay locked, with
\* their version and value, through every later operation of that log.
C20_Inv ==
    \A l \in Logs : \A c \in leaked[l] : cells[c].locked /\ c \notin held[l]

C20_Act ==
    \A l \in Logs :
        /\ ClearStep(l) => cells' = cells
        /\ ClearStep(l) /\ pc[l] \in {"locked", "written"} =>
              leaked'[l] = leaked[l] \cup held[l]
        /\ leaked[l] \subseteq leaked'[l]
        /\ \A c \in leaked[l] : cells'[c] = cells[c]

C20_ClearTouchesOnlyLog == [] C20_Inv /\ [][C20_Act]_vars

\* The log was cleared while it held 16; a later attempt on [32, 16] locked
\* 32, failed on 16 and rolled back: 32 is free again, 16 is still locked.
C20_Witness ==
    /\ leaked["L1"] = {16}
    /\ Failed("L1") /\ failAt["L1"] = 2 /\ undone["L1"] = {1}
    /\ origin["L1"] = << 32, 16 >>
    /\ cells[16].locked /\ ~cells[32].locked

====
